---- MODULE Spec2Model ----
(***************************************************************************)
(* Model of razee-io/Request-util, src/request.js: the translation of      *)
(* `request`-style options into axios options, the normalisation of the    *)
(* axios response / error, and the three entry points doRequest,           *)
(* getStream and doRequestRetry.                                           *)
(*                                                                         *)
(* JavaScript values are encoded as follows.  An object is a function from *)
(* its own property names (strings) to values; a scalar is a string        *)
(* ("true", "false", "null", "undefined", "" and other text), except       *)
(* maxAttempts, retryDelay, aws.sign_version and HTTP statuses, which are  *)
(* integers.  An object reference that cannot be cloned (the agent) is a   *)
(* string naming the object.                                               *)
(***************************************************************************)
EXTENDS Integers, Sequences, FiniteSets, TLC

VARIABLES api, pc, callerOpts, origOpts, requestOptions, axiosOptions,
          axiosResponse, triesRemaining, calls, delays, signerCalls,
          outcome, result, thrown, statuses, events, aborted, chunks,
          waits, translations

vars == <<api, pc, callerOpts, origOpts, requestOptions, axiosOptions,
          axiosResponse, triesRemaining, calls, delays, signerCalls,
          outcome, result, thrown, statuses, events, aborted, chunks,
          waits, translations>>

\* ------------------------------------------------------------------ bounds

\* Largest maxAttempts value a caller passes (0 and "absent" are passed too).
MaxAttemptsBound == 6

\* Largest number of chunks the transport's body stream produces.
MaxChunks == 2

\* ------------------------------------------------------- JavaScript objects

EmptyObj == [k \in {} |-> "undefined"]

Has(o, k) == k \in DOMAIN o

\* delete o[k]
Del(o, k) == [x \in DOMAIN o \ {k} |-> o[x]]

\* o[k] = v
Put(o, k, v) == [x \in DOMAIN o \cup {k} |-> IF x = k THEN v ELSE o[x]]

\* The falsy scalars of JavaScript, in this encoding.
Falsy == {"false", "null", "undefined", "", "0"}

\* `if( o.k )` for a property holding a scalar.
Truthy(o, k) == Has(o, k) /\ o[k] \notin Falsy

\* `if( o.k )` for a property holding an object (headers, aws).
TruthyObj(o, k) == Has(o, k)

\* deepmerge( target, source ) on objects whose nested objects the target
\* does not share with the source: a fresh object with the keys of both,
\* the source's value winning.
merge(target, source) ==
  [k \in DOMAIN target \cup DOMAIN source |->
     IF k \in DOMAIN source THEN source[k] ELSE target[k]]

\* The order in which Object.getOwnPropertyNames lists the properties that
\* an option bag may hold (insertion order of the callers modelled here).
KeyOrder ==
  << "method", "baseUrl", "uri", "url", "headers", "qs", "body", "form",
     "json", "simple", "resolveWithFullResponse", "timeout", "agent", "ca",
     "cert", "key", "encoding", "aws", "status", "maxAttempts", "retryDelay",
     "retryStrategy", "foo", "bar" >>

AwsKeyOrder == << "key", "secret", "sign_version", "bucket", "session" >>

\* Object.getOwnPropertyNames( o ).filter( keep ), as a list
FilterNames(order, o, reject) ==
  SelectSeq(order, LAMBDA k : k \in DOMAIN o /\ k \notin reject)

\* ------------------------------------------------------- option translation

allowedRequestOptions ==
  { "method", "baseUrl", "uri", "url", "headers", "qs", "body", "form",
    "json", "simple", "resolveWithFullResponse", "timeout", "agent", "ca",
    "cert", "key", "encoding", "aws", "status" }

\* Mutant of invalidRequestOptions: only the first invalid key is reported.
invalidRequestOptions_first(o) ==
  LET all == FilterNames(KeyOrder, o, allowedRequestOptions)
  IN IF all = << >> THEN << >> ELSE << Head(all) >>

\* Object.getOwnPropertyNames( requestOptions ).filter( n => !allowed.includes( n ) )
invalidRequestOptions(o) == FilterNames(KeyOrder, o, allowedRequestOptions)

allowedAwsOptions == { "key", "secret", "sign_version" }

invalidAWSOptions(aws) == FilterNames(AwsKeyOrder, aws, allowedAwsOptions)

\* new Error( `${text}${list.join(',')}` )
NewError(text, list) == [name |-> "Error", text |-> text, list |-> list]

\* The TypeError of a property read on undefined.
NewTypeError(text) == [name |-> "TypeError", text |-> text, list |-> << >>]

\* String.prototype.toUpperCase on the method names used here
toUpperCase(m) ==
  CASE m \in {"get", "GET"} -> "GET"
    [] m \in {"post", "POST", "Post"} -> "POST"
    [] m \in {"put", "PUT"} -> "PUT"
    [] m \in {"patch", "PATCH"} -> "PATCH"
    [] m \in {"delete", "DELETE"} -> "DELETE"
    [] OTHER -> m

\* Mutant of toLowerCase: the name is left as it is.
toLowerCase_asIs(h) == h

\* String.prototype.toLowerCase on the header names used here
toLowerCase(h) ==
  CASE h = "Content-Type" -> "content-type"
    [] h = "CONTENT-TYPE" -> "content-type"
    [] h = "Accept" -> "accept"
    [] h = "X-Token" -> "x-token"
    [] OTHER -> h

HeaderOrder ==
  << "Content-Type", "content-type", "CONTENT-TYPE", "Accept", "accept",
     "X-Token", "x-token" >>

\* url.startsWith('https')
startsWithHttps(u) == u \in {"https://host/path", "https"}

\* The loop over Object.getOwnPropertyNames( headers ): a header whose value
\* is undefined or null is deleted, any other is renamed to lowercase.
RECURSIVE normalizeHeaders(_, _)
normalizeHeaders(h, names) ==
  IF names = << >> THEN h
  ELSE LET n == Head(names)
           h1 == IF h[n] \in {"undefined", "null"} THEN Del(h, n)
                 ELSE IF n # toLowerCase(n)
                      THEN Del(Put(h, toLowerCase(n), h[n]), n)
                      ELSE h
       IN normalizeHeaders(h1, Tail(names))

\* merge( axiosOptions.headers, { 'content-type': v } )
withContentType(a, v) ==
  Put(a, "headers",
      Put(IF Has(a, "headers") THEN a["headers"] ELSE EmptyObj,
          "content-type", v))

\* `!axiosOptions.headers || !axiosOptions.headers['content-type']`
noContentType(a) ==
  ~Has(a, "headers") \/ ~Truthy(a["headers"], "content-type")

\* new URL( url, baseURL ) succeeds: the url is absolute, or it is relative
\* (or undefined, read as the relative path "undefined") and the base is absolute.
isAbsoluteUrl(u) == u \in {"https://host/path", "http://host/path", "https://host", "http://host"}

urlParses(a) ==
  \/ Has(a, "url") /\ isAbsoluteUrl(a["url"])
  \/ Has(a, "baseURL") /\ isAbsoluteUrl(a["baseURL"])

\* aws4.sign( options, credentials ): the headers of its result.  The
\* credentials passed hold no session token, so no X-Amz-Security-Token.
aws4sign(options, credentials) ==
  [headers |-> [k \in {"Authorization", "X-Amz-Date"} |->
                  IF k = "Authorization" THEN "AWS4-HMAC-SHA256" ELSE "amz-date"]]

\* Lines 97-126: uri -> url, baseUrl -> baseURL, headers, qs -> params
renameOptions(a0) ==
  LET a1 == IF Truthy(a0, "uri") THEN Del(Put(a0, "url", a0["uri"]), "uri") ELSE a0
      a2 == IF Truthy(a1, "baseUrl")
            THEN Del(Put(a1, "baseURL", a1["baseUrl"]), "baseUrl") ELSE a1
      a3 == IF TruthyObj(a2, "headers")
            THEN Put(a2, "headers",
                     normalizeHeaders(a2["headers"],
                                      FilterNames(HeaderOrder, a2["headers"], {})))
            ELSE a2
  IN IF Truthy(a3, "qs") THEN Del(Put(a3, "params", a3["qs"]), "qs") ELSE a3

\* Lines 128-172: payload selection and content-type inference
selectPayload(a) ==
  IF toUpperCase(a["method"]) \in {"POST", "PUT", "PATCH"}
  THEN IF Truthy(a, "body")
       THEN LET b == Del(Put(a, "data", a["body"]), "body")
            IN IF noContentType(b)
               THEN IF Truthy(b, "json")
                    THEN withContentType(b, "application/json")
                    ELSE withContentType(b, "text/plain")
               ELSE b
       ELSE IF Truthy(a, "form")
       THEN LET b == Del(Put(a, "data", a["form"]), "form")
            IN IF noContentType(b)
               THEN withContentType(b, "application/x-www-form-urlencoded")
               ELSE b
       ELSE IF Truthy(a, "json")
       THEN LET b == Del(Put(a, "data", a["json"]), "json")
            IN IF noContentType(b)
               THEN withContentType(b, "application/json")
               ELSE b
       ELSE a
  ELSE Del(IF ~Truthy(a, "json") THEN Put(a, "responseType", "text") ELSE a,
           "json")

\* Mutant of applySimple: `simple` is dropped and validateStatus left alone.
applySimple_ignored(a) == Del(a, "simple")

\* Lines 174-178: simple -> validateStatus
applySimple(a) ==
  Del(IF ~Truthy(a, "simple") THEN Put(a, "validateStatus", "null") ELSE a,
      "simple")

\* Lines 180-190: resolveWithFullResponse and encoding
applyEncoding(a) ==
  LET b == Del(a, "resolveWithFullResponse")
  IN Del(IF Has(b, "encoding") /\ b["encoding"] = "null"
         THEN Put(b, "responseType", "arraybuffer") ELSE b,
         "encoding")

\* new Https.Agent( agentOptions ): the agent built from ca / cert / key
newHttpsAgent(a) ==
  LET given == {x \in {"ca", "cert", "key"} : Truthy(a, x)}
  IN CASE given = {"ca"} -> "Https.Agent({ca})"
       [] given = {"cert"} -> "Https.Agent({cert})"
       [] given = {"key"} -> "Https.Agent({key})"
       [] given = {"ca", "cert"} -> "Https.Agent({ca,cert})"
       [] given = {"ca", "key"} -> "Https.Agent({ca,key})"
       [] given = {"cert", "key"} -> "Https.Agent({cert,key})"
       [] given = {"ca", "cert", "key"} -> "Https.Agent({ca,cert,key})"
       [] OTHER -> "Https.Agent({})"

\* Lines 192-216: agent materialisation (the url is known to be a string
\* when an agent is given)
applyAgent(a) ==
  LET b == IF Truthy(a, "agent")
           THEN IF startsWithHttps(a["url"])
                THEN Put(a, "httpsAgent", a["agent"])
                ELSE Put(a, "httpAgent", a["agent"])
           ELSE IF Truthy(a, "ca") \/ Truthy(a, "key") \/ Truthy(a, "cert")
           THEN Put(a, "httpsAgent", newHttpsAgent(a))
           ELSE a
  IN Del(Del(Del(Del(b, "agent"), "ca"), "cert"), "key")

\* Line 219: the condition under which the AWS4 block runs
awsRequested(a) ==
  TruthyObj(a, "aws") /\ Truthy(a["aws"], "key") /\ Truthy(a["aws"], "secret")

\* Line 222: `aws.sign_version && aws.sign_version != 4`
badSignVersion(aws) == Has(aws, "sign_version") /\ aws["sign_version"] # 0
                         /\ aws["sign_version"] # 4

\* Lines 231-255: sign and merge the lowercase AWS headers
signRequest(a) ==
  LET options == [host |-> "host", path |-> "/path",
                  method |-> toUpperCase(a["method"])]
      signRes == aws4sign(options, [accessKeyId |-> a["aws"]["key"],
                                    secretAccessKey |-> a["aws"]["secret"]])
      h0 == IF Has(a, "headers") THEN a["headers"] ELSE EmptyObj
      h1 == Put(Put(h0, "authorization", signRes.headers["Authorization"]),
                "x-amz-date", signRes.headers["X-Amz-Date"])
      h2 == IF Has(signRes.headers, "X-Amz-Security-Token")
            THEN Put(h1, "x-amz-security-token",
                     signRes.headers["X-Amz-Security-Token"])
            ELSE h1
  IN Put(a, "headers", h2)

\* What a call of requestOpts_to_axiosOpts leaves behind: ok (it returned) or
\* not (it threw err), the caller's object as it is afterwards, the axios
\* options returned, and the number of aws4.sign calls made.
Translated(ok, caller, err, cfg, signs) ==
  [ok |-> ok, caller |-> caller, err |-> err, cfg |-> cfg, signs |-> signs]

NoError == NewError("", << >>)

\* function requestOpts_to_axiosOpts( requestOptions, logger )
requestOpts_to_axiosOpts(o) ==
  LET stripped == Del(o, "agent")
      invalid == invalidRequestOptions(stripped)
  IN IF Len(invalid) > 0
     THEN Translated(FALSE, stripped,
                     NewError("Invalid request options: ", invalid), EmptyObj, 0)
     ELSE
     LET a0 == merge([k \in {"method", "simple"} |->
                        IF k = "method" THEN "get" ELSE "true"], stripped)
         a1 == IF Truthy(o, "agent") THEN Put(a0, "agent", o["agent"]) ELSE a0
         a2 == applyEncoding(applySimple(selectPayload(renameOptions(a1))))
     IN IF Truthy(a2, "agent") /\ ~Has(a2, "url")
        THEN Translated(FALSE, stripped,
                        NewTypeError("Cannot read properties of undefined (reading 'startsWith')"),
                        EmptyObj, 0)
        ELSE
        LET a3 == applyAgent(a2)
        IN IF awsRequested(a3)
           THEN IF badSignVersion(a3["aws"])
                THEN Translated(FALSE, stripped,
                                NewError("Invalid aws version: ",
                                         << "sign_version" >>), EmptyObj, 0)
                ELSE IF Len(invalidAWSOptions(a3["aws"])) > 0
                THEN Translated(FALSE, stripped,
                                NewError("Invalid aws options: ",
                                         invalidAWSOptions(a3["aws"])),
                                EmptyObj, 0)
                ELSE IF ~urlParses(a3)
                THEN Translated(FALSE, stripped, NewTypeError("Invalid URL"),
                                EmptyObj, 0)
                ELSE Translated(TRUE, stripped, NoError,
                                Del(signRequest(a3), "status"), 1)
           ELSE Translated(TRUE, stripped, NoError, Del(a3, "status"), 0)

\* ------------------------------------------------------------ the transport

\* The HTTP statuses the server answers with.
Statuses == {200, 299, 304, 404, 409, 499, 500, 503}

\* The payload axios delivers for a responseType: the n-th response of a
\* call carries the bytes n, decoded as the responseType asks.
Payload(cfg, n) ==
  [type |-> IF ~Has(cfg, "responseType") THEN "json"
            ELSE IF cfg["responseType"] = "arraybuffer" THEN "Buffer"
            ELSE IF cfg["responseType"] = "stream" THEN "stream"
            ELSE "text",
   bytes |-> n]

\* The response object axios resolves with (or attaches to its error).
AxiosResponse(cfg, s, n) ==
  [k \in {"status", "statusText", "headers", "config", "request", "data"} |->
     CASE k = "status" -> s
       [] k = "data" -> Payload(cfg, n)
       [] k = "statusText" -> "status-text"
       [] k = "headers" -> "raw-headers"
       [] k = "config" -> "axios-config"
       [] OTHER -> "ClientRequest"]

\* Whether axios resolves for status s: validateStatus null accepts every
\* status (lines 174-177), the default accepts 2xx only.
validateStatus(cfg, s) ==
  \/ Has(cfg, "validateStatus") /\ cfg["validateStatus"] = "null"
  \/ (s >= 200 /\ s < 300)

\* The error axios rejects with for a response validateStatus refuses.
AxiosStatusError(r) ==
  [k \in {"message", "code", "config", "request", "response"} |->
     CASE k = "message" -> "Request failed with status code"
       [] k = "code" -> "ERR_BAD_RESPONSE"
       [] k = "config" -> "axios-config"
       [] k = "request" -> "ClientRequest"
       [] OTHER -> r]

\* The error axios rejects with when no response was received.
AxiosNetworkError ==
  [k \in {"message", "code", "config", "request"} |->
     CASE k = "message" -> "bad things happened man"
       [] k = "code" -> "ECONNREFUSED"
       [] k = "config" -> "axios-config"
       [] OTHER -> "ClientRequest"]

\* The error axios rejects with when its signal is aborted.
AxiosCanceledError ==
  [k \in {"message", "code", "config", "request"} |->
     CASE k = "message" -> "canceled"
       [] k = "code" -> "ERR_CANCELED"
       [] k = "config" -> "axios-config"
       [] OTHER -> "ClientRequest"]

\* ------------------------------------------------- response normalisation

REDACTED == "[REDACTED]"

JsUndefined == [type |-> "undefined", bytes |-> 0]

\* Buffer.from( data, 'binary' )
BufferFrom(d) == [type |-> "Buffer", bytes |-> d.bytes]

\* Buffer.from throws a TypeError for an argument that is neither a string
\* nor a buffer (the body stream of getStream).
BufferFromThrows(d) == d.type = "stream"

\* Mutant of allowedResponseProperties: headers and config are let through.
allowedResponseProperties_leaky ==
  {"url", "method", "statusCode", "statusMessage", "body", "headers", "config"}

allowedResponseProperties == {"url", "method", "statusCode", "statusMessage", "body"}

\* Lines 284-290: every own property outside the allow-list is overwritten
redactResponse(r) ==
  [k \in DOMAIN r |-> IF k \in allowedResponseProperties THEN r[k] ELSE REDACTED]

\* `requestOptions.encoding === null`
encodingIsNull(o) == Has(o, "encoding") /\ o["encoding"] = "null"

\* Lines 263-290 of axiosResponse_to_requestResponse: the response object
\* after the renames and the redaction (it is the axios response itself,
\* changed in place).
requestResponseOf(o, r) ==
  LET r1 == Del(Put(r, "statusCode", r["status"]), "status")
      r2 == Del(Put(r1, "statusMessage", r1["statusText"]), "statusText")
      r3 == Del(Put(r2, "body", IF encodingIsNull(o) THEN BufferFrom(r2["data"])
                                ELSE r2["data"]), "data")
  IN redactResponse(r3)

\* Mutant of axiosResponse_to_requestResponse: the body alone is returned
\* whatever the caller asked for.
axiosResponse_to_requestResponse_bodyOnly(o, r) ==
  [kind |-> "body", value |-> requestResponseOf(o, r)["body"]]

\* Line 293: the full response, or its body alone
axiosResponse_to_requestResponse(o, r) ==
  IF Truthy(o, "resolveWithFullResponse")
  THEN [kind |-> "response", value |-> requestResponseOf(o, r)]
  ELSE [kind |-> "body", value |-> requestResponseOf(o, r)["body"]]

\* --------------------------------------------------- error normalisation

sensitiveProperties == {"config", "request", "headers"}

redactSensitive(e) ==
  [k \in DOMAIN e \cup sensitiveProperties |->
     IF k \in sensitiveProperties THEN REDACTED ELSE e[k]]

\* function axiosErr_to_requestErr( axiosErr )
axiosErr_to_requestErr(e) ==
  LET e1 == IF Has(e, "response")
            THEN LET r == e["response"]
                     r1 == Put(Put(r, "statusCode", r["status"]),
                               "statusMessage", r["statusText"])
                     r2 == Del(Del(Del(r1, "status"), "statusText"), "data")
                 IN Put(Put(Put(e, "statusCode", r["status"]),
                            "content", r["data"]), "response", r2)
            ELSE e
      e2 == Put(e1, "error", IF Has(e1, "content") THEN e1["content"] ELSE JsUndefined)
      e3 == redactSensitive(e2)
  IN IF Has(e3, "response")
     THEN Put(e3, "response", redactSensitive(e3["response"]))
     ELSE e3

\* ---------------------------------------------------- the callers' objects

\* A property that is absent or holds one of vals.
Opt(k, vals) == {EmptyObj} \cup {[x \in {k} |-> v] : v \in vals}

\* An object holding the given keys, every one with the value v.
Keys(ks, v) == [x \in ks |-> v]

BaseBags ==
  { [k \in {"method", "baseUrl", "uri", "json"} |->
       CASE k = "method" -> "get" [] k = "baseUrl" -> "https://host"
         [] k = "uri" -> "/path" [] OTHER -> "true"],
    [k \in {"method", "url", "body"} |->
       CASE k = "method" -> "post" [] k = "url" -> "http://host/path"
         [] OTHER -> "text"] }

RetryBags ==
  Opt("maxAttempts", 0 .. MaxAttemptsBound)
    \cup { [k \in {"maxAttempts", "retryDelay", "retryStrategy"} |->
              IF k = "retryStrategy" THEN "strategy" ELSE 1] }
    \cup Opt("retryDelay", {0})

AwsBags ==
  { merge(merge(merge(k, s), merge(v, b)), n) :
      k \in Opt("key", {"k", ""}), s \in Opt("secret", {"s"}),
      v \in Opt("sign_version", {0, 2, 4}), b \in Opt("bucket", {"b"}),
      n \in Opt("session", {"t"}) }

\* The option bags callers hold: every combination of the options the entry
\* points branch on, and every shape of the aws option.
CallerBags ==
  { merge(merge(merge(b, merge(s, f)), merge(e, g)), merge(x, merge(r, a))) :
      b \in BaseBags, s \in Opt("simple", {"true", "false"}),
      f \in Opt("resolveWithFullResponse", {"true", "false"}),
      e \in Opt("encoding", {"null"}), g \in Opt("agent", {"agent1"}),
      x \in {Keys(ks, "x") : ks \in SUBSET {"foo", "bar"}},
      r \in RetryBags,
      a \in Opt("aws", {[k \in {"key", "secret", "sign_version"} |->
                           CASE k = "key" -> "k" [] k = "secret" -> "s"
                             [] OTHER -> 4]}) }
  \cup
  { merge(merge(b, x), [k \in {"aws"} |-> a]) :
      b \in BaseBags, x \in {Keys(ks, "x") : ks \in SUBSET {"foo"}},
      a \in AwsBags }

\* The header objects callers pass: every assignment of a value, undefined
\* or null to some of three names in mixed and lower case.
HeaderBags ==
  UNION { [ns -> {"application/xml", "undefined", "null"}] :
            ns \in SUBSET {"Content-Type", "content-type", "X-Token"} }

SignedAws ==
  [k \in {"key", "secret", "sign_version"} |->
     CASE k = "key" -> "k" [] k = "secret" -> "s" [] OTHER -> 4]

\* Where the request goes: an absolute url, or a base and a relative path.
UrlBags ==
  { [k \in {"url"} |-> "https://host/path"],
    [k \in {"url"} |-> "http://host/path"],
    [k \in {"baseUrl", "uri"} |->
       IF k = "baseUrl" THEN "https://host" ELSE "/path"],
    [k \in {"baseUrl", "uri"} |->
       IF k = "baseUrl" THEN "http://host" ELSE "/path"] }

\* The option bags translation is checked on: every method with every
\* combination of body, form, json and headers, and every combination of
\* agent, ca, cert and key on every kind of URL.
TranslateBags ==
  { merge(merge(merge(m, [k \in {"url"} |-> "http://host/path"]), merge(b, f)),
          merge(merge(j, h), a)) :
      m \in Opt("method", {"get", "post", "PUT", "patch", "delete"}),
      b \in Opt("body", {"text"}), f \in Opt("form", {"f=1"}),
      j \in Opt("json", {"true", "false", "json-object"}),
      h \in Opt("headers", HeaderBags), a \in Opt("aws", {SignedAws}) }
  \cup
  { merge(merge(merge(m, u), merge(g, merge(c1, merge(c2, c3)))),
          merge(merge(a, merge(s, f)), merge(merge(e, x), merge(q, t)))) :
      m \in Opt("method", {"post"}), u \in UrlBags,
      g \in Opt("agent", {"agent1"}), c1 \in Opt("ca", {"pem"}),
      c2 \in Opt("cert", {"pem"}), c3 \in Opt("key", {"pem"}),
      a \in Opt("aws", {SignedAws}), s \in Opt("simple", {"true", "false"}),
      f \in Opt("resolveWithFullResponse", {"true"}),
      e \in Opt("encoding", {"null"}), x \in Opt("status", {"x"}),
      q \in Opt("qs", {"q=1"}), t \in Opt("timeout", {"1000"}) }

\* ------------------------------------------------------------ state machine

NoResult == [kind |-> "none", value |-> EmptyObj]

Init ==
  /\ callerOpts \in CallerBags
  /\ origOpts = callerOpts
  /\ api = "none"
  /\ pc = "idle"
  /\ requestOptions = EmptyObj
  /\ axiosOptions = EmptyObj
  /\ axiosResponse = EmptyObj
  /\ triesRemaining = 0
  /\ calls = 0
  /\ delays = 0
  /\ signerCalls = 0
  /\ outcome = "pending"
  /\ result = NoResult
  /\ thrown = << >>
  /\ statuses = << >>
  /\ events = << >>
  /\ aborted = FALSE
  /\ chunks = 0
  /\ waits = << >>
  /\ translations = << >>

\* The promise of an entry point rejects with e, or the entry point throws e.
Fail(how, e) ==
  /\ outcome' = how
  /\ result' = [kind |-> "error", value |-> e]
  /\ pc' = "done"

\* async function doRequest( requestOptions, logger ), up to its await
DoRequest ==
  /\ pc = "idle"
  /\ api' = "doRequest"
  /\ LET t == requestOpts_to_axiosOpts(callerOpts)
     IN /\ callerOpts' = t.caller
        /\ signerCalls' = t.signs
        /\ requestOptions' = t.caller
        /\ IF t.ok
           THEN /\ axiosOptions' = t.cfg
                /\ calls' = calls + 1
                /\ pc' = "await"
                /\ UNCHANGED <<outcome, result>>
           ELSE /\ Fail("rejected", t.err)
                /\ UNCHANGED <<axiosOptions, calls>>
  /\ UNCHANGED <<waits, translations, origOpts, axiosResponse, triesRemaining, delays, thrown,
                 statuses, events, aborted, chunks>>

\* doRequest, lines 386 and 392-393: axios resolved
DoRequestThen ==
  /\ api = "doRequest" /\ pc = "await"
  /\ \E s \in Statuses :
       /\ validateStatus(axiosOptions, s)
       /\ statuses' = Append(statuses, s)
       /\ LET r == AxiosResponse(axiosOptions, s, calls)
          IN /\ axiosResponse' = requestResponseOf(requestOptions, r)
             /\ result' = axiosResponse_to_requestResponse(requestOptions, r)
  /\ outcome' = "resolved"
  /\ pc' = "done"
  /\ UNCHANGED <<waits, translations, api, callerOpts, origOpts, requestOptions, axiosOptions,
                 triesRemaining, calls, delays, signerCalls, thrown, events,
                 aborted, chunks>>

\* The errors axios may reject the pending call with, and the status of the
\* response it carries (0: none was received).
AxiosErrors(cfg, n) ==
  { <<AxiosNetworkError, 0>> } \cup
  { <<AxiosStatusError(AxiosResponse(cfg, s, n)), s>> :
      s \in {x \in Statuses : ~validateStatus(cfg, x)} }

\* doRequest, lines 388-391: axios rejected
DoRequestCatch ==
  /\ api = "doRequest" /\ pc = "await"
  /\ \E e \in AxiosErrors(axiosOptions, calls) :
       /\ thrown' = << e[1] >>
       /\ statuses' = IF e[2] = 0 THEN statuses ELSE Append(statuses, e[2])
       /\ Fail("rejected", axiosErr_to_requestErr(e[1]))
  /\ UNCHANGED <<waits, translations, api, callerOpts, origOpts, requestOptions, axiosOptions,
                 axiosResponse, triesRemaining, calls, delays, signerCalls,
                 events, aborted, chunks>>

\* Mutant of goodResponse: only a 2xx status ends the retry loop.
goodResponse_2xx(s) == s >= 200 /\ s < 300

\* Line 431: a response that ends the retry loop
goodResponse(s) == s >= 200 /\ s < 500

defaultMaxAttempts == 5

\* Line 427: `requestRetryOptions.maxAttempts || 5`
initialTries(o) ==
  IF Has(o, "maxAttempts") /\ o["maxAttempts"] # 0
  THEN o["maxAttempts"] ELSE defaultMaxAttempts

defaultRetryDelay == 5000

\* Line 437: `requestRetryOptions.retryDelay || 5000`, the milliseconds of one
\* wait, read from the caller's object
retryDelayOf(o) ==
  IF Has(o, "retryDelay") /\ o["retryDelay"] # 0
  THEN o["retryDelay"] ELSE defaultRetryDelay

\* Lines 415-421: the `request` options of a retrying call, from the caller's
\* object o (its agent already deleted) and that agent
retryRequestOptions(o, agent) ==
  LET m == merge([k \in {"resolveWithFullResponse", "simple"} |->
                    IF k = "simple" THEN "false" ELSE "true"], o)
      d == Del(Del(Del(m, "retryDelay"), "maxAttempts"), "retryStrategy")
  IN IF Truthy(agent, "agent") THEN Put(d, "agent", agent["agent"]) ELSE d

\* async function doRequestRetry( requestRetryOptions, logger ), up to its
\* first await
DoRequestRetry ==
  /\ pc = "idle"
  /\ api' = "doRequestRetry"
  /\ LET stripped == Del(callerOpts, "agent")
         ro == retryRequestOptions(stripped, callerOpts)
         t == requestOpts_to_axiosOpts(ro)
         tries == initialTries(stripped)
     IN /\ callerOpts' = stripped
        /\ requestOptions' = t.caller
        /\ signerCalls' = t.signs
        /\ IF ~t.ok
           THEN /\ Fail("rejected", t.err)
                /\ UNCHANGED <<axiosOptions, calls, triesRemaining>>
           ELSE /\ axiosOptions' = t.cfg
                /\ triesRemaining' = tries - 1
                /\ IF tries > 0
                   THEN /\ calls' = calls + 1
                        /\ pc' = "await"
                        /\ UNCHANGED <<outcome, result>>
                   ELSE /\ Fail("rejected",
                                NewTypeError("Cannot read properties of undefined (reading 'status')"))
                        /\ UNCHANGED calls
  /\ UNCHANGED <<waits, translations, origOpts, axiosResponse, delays, thrown, statuses, events,
                 aborted, chunks>>

\* doRequestRetry, lines 430-443: axios resolved.  A good response, or the
\* last try, ends the loop and the response is converted and returned;
\* otherwise the delay is awaited.
RetryThen ==
  /\ api = "doRequestRetry" /\ pc = "await"
  /\ \E s \in Statuses :
       /\ validateStatus(axiosOptions, s)
       /\ statuses' = Append(statuses, s)
       /\ LET r == AxiosResponse(axiosOptions, s, calls)
          IN IF goodResponse(s) \/ triesRemaining <= 0
             THEN /\ axiosResponse' = requestResponseOf(requestOptions, r)
                  /\ result' = axiosResponse_to_requestResponse(requestOptions, r)
                  /\ outcome' = "resolved"
                  /\ pc' = "done"
                  /\ UNCHANGED <<delays, waits, triesRemaining>>
             ELSE /\ axiosResponse' = r
                  /\ delays' = delays + 1
                  /\ waits' = Append(waits, retryDelayOf(callerOpts))
                  /\ pc' = "delay"
                  /\ UNCHANGED <<result, outcome, triesRemaining>>
  /\ UNCHANGED <<translations, api, callerOpts, origOpts, requestOptions, axiosOptions,
                 calls, signerCalls, thrown, events, aborted, chunks>>

\* Mutant of RetryThrow: the error is caught and, while tries remain, the
\* call is retried after the delay.
RetryThrow_retried ==
  /\ api = "doRequestRetry" /\ pc = "await"
  /\ \E e \in AxiosErrors(axiosOptions, calls) :
       /\ thrown' = << e[1] >>
       /\ statuses' = IF e[2] = 0 THEN statuses ELSE Append(statuses, e[2])
       /\ IF triesRemaining > 0
          THEN /\ delays' = delays + 1
               /\ waits' = Append(waits, retryDelayOf(callerOpts))
               /\ pc' = "delay"
               /\ UNCHANGED <<outcome, result>>
          ELSE /\ Fail("rejected", e[1])
               /\ UNCHANGED <<delays, waits>>
  /\ UNCHANGED <<translations, api, callerOpts, origOpts, requestOptions, axiosOptions,
                 axiosResponse, triesRemaining, calls, signerCalls,
                 events, aborted, chunks>>

\* doRequestRetry, line 430: axios rejected; nothing catches the error
RetryThrow ==
  /\ api = "doRequestRetry" /\ pc = "await"
  /\ \E e \in AxiosErrors(axiosOptions, calls) :
       /\ thrown' = << e[1] >>
       /\ statuses' = IF e[2] = 0 THEN statuses ELSE Append(statuses, e[2])
       /\ Fail("rejected", e[1])
  /\ UNCHANGED <<waits, translations, api, callerOpts, origOpts, requestOptions, axiosOptions,
                 axiosResponse, triesRemaining, calls, delays, signerCalls,
                 events, aborted, chunks>>

\* doRequestRetry, lines 437 and 428-430: the delay's timer fires, the loop
\* condition holds (tries remained) and the next call is made
RetryDelayElapsed ==
  /\ api = "doRequestRetry" /\ pc = "delay"
  /\ triesRemaining' = triesRemaining - 1
  /\ calls' = calls + 1
  /\ pc' = "await"
  /\ UNCHANGED <<waits, translations, api, callerOpts, origOpts, requestOptions, axiosOptions,
                 axiosResponse, delays, signerCalls, outcome, result, thrown,
                 statuses, events, aborted, chunks>>

\* Lines 347-352: abort() aborts the AbortController, and axios sees it
\* through the signal on its options: it rejects a pending call with a
\* CanceledError and destroys the body stream of an answered one.
signalAborted == aborted /\ Has(axiosOptions, "signal")

\* Mutant of GetStream: the signal of the AbortController is not put on the
\* axios options.
GetStream_unwired ==
  /\ pc = "idle"
  /\ api' = "getStream"
  /\ LET t == requestOpts_to_axiosOpts(callerOpts)
     IN /\ callerOpts' = t.caller
        /\ signerCalls' = t.signs
        /\ requestOptions' = t.caller
        /\ IF t.ok
           THEN /\ axiosOptions' = Put(t.cfg, "responseType", "stream")
                /\ calls' = calls + 1
                /\ outcome' = "returned"
                /\ result' = [kind |-> "stream", value |-> EmptyObj]
                /\ pc' = "await"
           ELSE /\ Fail("thrown", t.err)
                /\ UNCHANGED <<axiosOptions, calls>>
  /\ UNCHANGED <<waits, translations, origOpts, axiosResponse, triesRemaining, delays, thrown,
                 statuses, events, aborted, chunks>>

\* function getStream( requestOptions, logger ): runs to its return
GetStream ==
  /\ pc = "idle"
  /\ api' = "getStream"
  /\ LET t == requestOpts_to_axiosOpts(callerOpts)
     IN /\ callerOpts' = t.caller
        /\ signerCalls' = t.signs
        /\ requestOptions' = t.caller
        /\ IF t.ok
           THEN /\ axiosOptions' = Put(Put(t.cfg, "responseType", "stream"),
                                       "signal", "abort-signal")
                /\ calls' = calls + 1
                /\ outcome' = "returned"
                /\ result' = [kind |-> "stream", value |-> EmptyObj]
                /\ pc' = "await"
           ELSE /\ Fail("thrown", t.err)
                /\ UNCHANGED <<axiosOptions, calls>>
  /\ UNCHANGED <<waits, translations, origOpts, axiosResponse, triesRemaining, delays, thrown,
                 statuses, events, aborted, chunks>>

\* getStream, lines 356-370: axios resolved.  The response is converted and
\* emitted, and its body piped into the returned stream; a TypeError of
\* Buffer.from or of Stream.pipeline (no body to pipe from) rejects the
\* promise of .then, which nothing handles.
StreamThen ==
  /\ api = "getStream" /\ pc = "await" /\ ~signalAborted
  /\ \E s \in Statuses :
       /\ validateStatus(axiosOptions, s)
       /\ statuses' = Append(statuses, s)
       /\ LET r == AxiosResponse(axiosOptions, s, calls)
          IN IF encodingIsNull(requestOptions) /\ BufferFromThrows(r["data"])
             THEN /\ axiosResponse' = r
                  /\ pc' = "unhandled"
                  /\ UNCHANGED events
             ELSE /\ axiosResponse' = requestResponseOf(requestOptions, r)
                  /\ events' = Append(events,
                       [type |-> "response",
                        n |-> IF Truthy(requestOptions, "resolveWithFullResponse")
                              THEN s ELSE 0])
                  /\ pc' = IF Truthy(requestOptions, "resolveWithFullResponse")
                           THEN "streaming" ELSE "unhandled"
  /\ UNCHANGED <<waits, translations, api, callerOpts, origOpts, requestOptions, axiosOptions,
                 triesRemaining, calls, delays, signerCalls, outcome, result,
                 thrown, aborted, chunks>>

\* getStream, line 356: axios rejected (a refused status, a network failure,
\* or the abort); .then has no rejection handler and nothing is emitted
StreamRejected ==
  /\ api = "getStream" /\ pc = "await"
  /\ \E e \in IF signalAborted THEN { <<AxiosCanceledError, 0>> }
              ELSE AxiosErrors(axiosOptions, calls) :
       /\ thrown' = << e[1] >>
       /\ statuses' = IF e[2] = 0 THEN statuses ELSE Append(statuses, e[2])
  /\ pc' = "unhandled"
  /\ UNCHANGED <<waits, translations, api, callerOpts, origOpts, requestOptions, axiosOptions,
                 axiosResponse, triesRemaining, calls, delays, signerCalls,
                 outcome, result, events, aborted, chunks>>

\* Stream.pipeline: a chunk of the body is written to the returned stream
StreamData ==
  /\ api = "getStream" /\ pc = "streaming" /\ ~signalAborted
  /\ chunks < MaxChunks
  /\ chunks' = chunks + 1
  /\ events' = Append(events, [type |-> "data", n |-> chunks + 1])
  /\ UNCHANGED <<waits, translations, api, pc, callerOpts, origOpts, requestOptions, axiosOptions,
                 axiosResponse, triesRemaining, calls, delays, signerCalls,
                 outcome, result, thrown, statuses, aborted>>

\* Stream.pipeline: the body ended, and so does the returned stream
StreamEnd ==
  /\ api = "getStream" /\ pc = "streaming" /\ ~signalAborted
  /\ events' = Append(events, [type |-> "end", n |-> 0])
  /\ pc' = "done"
  /\ UNCHANGED <<waits, translations, api, callerOpts, origOpts, requestOptions, axiosOptions,
                 axiosResponse, triesRemaining, calls, delays, signerCalls,
                 outcome, result, thrown, statuses, aborted, chunks>>

\* Stream.pipeline: the body failed (or was destroyed by the abort), and the
\* returned stream is destroyed with the error
StreamError ==
  /\ api = "getStream" /\ pc = "streaming"
  /\ events' = Append(events, [type |-> "error", n |-> 0])
  /\ pc' = "done"
  /\ UNCHANGED <<waits, translations, api, callerOpts, origOpts, requestOptions, axiosOptions,
                 axiosResponse, triesRemaining, calls, delays, signerCalls,
                 outcome, result, thrown, statuses, aborted, chunks>>

\* axiosStream.abort(), lines 348-351
Abort ==
  /\ api = "getStream" /\ pc \in {"await", "streaming"} /\ ~aborted
  /\ aborted' = TRUE
  /\ UNCHANGED <<waits, translations, api, pc, callerOpts, origOpts, requestOptions, axiosOptions,
                 axiosResponse, triesRemaining, calls, delays, signerCalls,
                 outcome, result, thrown, statuses, events, chunks>>

Next ==
  \/ DoRequest \/ DoRequestThen \/ DoRequestCatch
  \/ DoRequestRetry \/ RetryThen \/ RetryThrow \/ RetryDelayElapsed
  \/ GetStream \/ StreamThen \/ StreamRejected \/ StreamData \/ StreamEnd
  \/ StreamError \/ Abort

Spec == Init /\ [][Next]_vars

\* ---------------------------------------------------- translation on its own

MaxTranslations == 2

TranslateInit ==
  /\ callerOpts \in TranslateBags
  /\ origOpts = callerOpts
  /\ api = "none"
  /\ pc = "idle"
  /\ requestOptions = EmptyObj
  /\ axiosOptions = EmptyObj
  /\ axiosResponse = EmptyObj
  /\ triesRemaining = 0
  /\ calls = 0
  /\ delays = 0
  /\ signerCalls = 0
  /\ outcome = "pending"
  /\ result = NoResult
  /\ thrown = << >>
  /\ statuses = << >>
  /\ events = << >>
  /\ aborted = FALSE
  /\ chunks = 0
  /\ waits = << >>
  /\ translations = << >>

\* requestOpts_to_axiosOpts( requestOptions ) is called on the object the
\* caller holds, as each entry point does first, and what it leaves behind
\* is recorded.
Translate ==
  /\ Len(translations) < MaxTranslations
  /\ LET t == requestOpts_to_axiosOpts(callerOpts)
     IN /\ callerOpts' = t.caller
        /\ translations' = Append(translations, t)
        /\ signerCalls' = signerCalls + t.signs
  /\ UNCHANGED <<api, pc, origOpts, requestOptions, axiosOptions, axiosResponse,
                 triesRemaining, calls, delays, outcome, result, thrown,
                 statuses, events, aborted, chunks, waits>>

TranslateNext == Translate

TranslateSpec == TranslateInit /\ [][TranslateNext]_vars

\* ------------------------------------------------------------------ claims

\* What the specification says of the option bags (section 3) and of the
\* responses (section 4.2), stated apart from the code's own lists.
SpecAllowList ==
  { "method", "baseUrl", "uri", "url", "headers", "qs", "body", "form",
    "json", "simple", "resolveWithFullResponse", "timeout", "agent", "ca",
    "cert", "key", "encoding", "aws", "status" }

SpecRetryOnly == {"retryDelay", "maxAttempts", "retryStrategy"}

SpecResponseAllowList == {"url", "method", "statusCode", "statusMessage", "body"}

SpecAwsAllowList == {"key", "secret", "sign_version"}

\* The keys of the caller's bag that the called entry point does not accept.
SpecInvalidKeys ==
  DOMAIN origOpts \ (SpecAllowList \cup
                       IF api = "doRequestRetry" THEN SpecRetryOnly ELSE {})

\* N of the caller: maxAttempts, 5 when absent.
SpecMaxAttempts ==
  IF Has(origOpts, "maxAttempts") THEN origOpts["maxAttempts"] ELSE 5

Range(q) == {q[i] : i \in 1 .. Len(q)}

Failed == pc = "done" /\ outcome \in {"rejected", "thrown"}

\* The transport answered every call made so far with a status (no network
\* failure), and the call has ended.
AnsweredAndDone ==
  pc = "done" /\ calls >= 1 /\ Len(statuses) = calls

\* The result is the n-th response of the transport, or its body.
ResultIsResponse(n) ==
  /\ outcome = "resolved"
  /\ \/ /\ result.kind = "response"
        /\ result.value["statusCode"] = statuses[n]
        /\ result.value["body"].bytes = n
     \/ /\ result.kind = "body"
        /\ result.value.bytes = n

\* C1: in doRequestRetry the number of transport calls never exceeds
\* maxAttempts N (5 when absent); no call follows a response whose status is
\* in [200,500); with k 5xx responses first and a status in [200,500) next,
\* the result is response k+1 after k+1 calls when k < N, and response N
\* after N calls when k >= N.
C1_RetryCount ==
  api = "doRequestRetry" =>
    /\ calls <= SpecMaxAttempts
    /\ \A i \in 1 .. Len(statuses) :
         (statuses[i] >= 200 /\ statuses[i] < 500) =>
           (i = Len(statuses) /\ calls = i)
    /\ AnsweredAndDone =>
         /\ ResultIsResponse(calls)
         /\ \/ statuses[calls] >= 200 /\ statuses[calls] < 500
            \/ calls = SpecMaxAttempts

\* C2: when every transport call returns a response, doRequestRetry resolves
\* with the last-seen response (the response object, with its status),
\* whatever the status, and never rejects.
C2_RetryNeverThrows ==
  (api = "doRequestRetry" /\ pc = "done" /\ calls >= 1 /\ thrown = << >>) =>
    /\ outcome = "resolved"
    /\ result.kind = "response"
    /\ result.value["statusCode"] = statuses[Len(statuses)]
    /\ result.value["body"].bytes = calls

C4_RetryForcesOptions ==
  (api = "doRequestRetry") =>
    /\ DOMAIN requestOptions \cap SpecRetryOnly = {}
    /\ calls >= 1 =>
         /\ Has(axiosOptions, "validateStatus")
         /\ axiosOptions["validateStatus"] = "null"
    /\ outcome = "resolved" =>
         /\ result.kind = "response"
         /\ {"statusCode", "body"} \subseteq DOMAIN result.value

\* C5: the caller-supplied options object is never mutated: after a call of
\* doRequest, getStream or doRequestRetry it has the keys and values it had
\* before, its agent included.
C5_CallerNotMutated == callerOpts = origOpts

\* C6: for a bag with a key outside the allow-list, translation fails with an
\* error that lists every invalid key, and no transport call is ever made.
C6_InvalidOptionsRejected ==
  (api # "none" /\ SpecInvalidKeys # {}) =>
    /\ calls = 0
    /\ signerCalls = 0
    /\ Failed
    /\ result.kind = "error"
    /\ result.value.name = "Error"
    /\ result.value.text = "Invalid request options: "
    /\ Range(result.value.list) = SpecInvalidKeys
    /\ Len(result.value.list) = Cardinality(SpecInvalidKeys)

\* C6's case: a bag with two invalid keys was given to an entry point.
C6_Witness ==
  /\ api = "getStream" /\ outcome = "thrown"
  /\ {"foo", "bar"} \subseteq DOMAIN origOpts
  /\ result.value.list = << "foo", "bar" >>

\* C7: an aws bag whose sign_version is present and not 4 makes translation
\* fail; an aws bag with sub-keys beyond key / secret / sign_version makes it
\* fail with an error naming them; the signer is not invoked and no
\* transport call is made.
C7_AwsRejected ==
  (api # "none" /\ Has(origOpts, "aws") /\ SpecInvalidKeys = {}) =>
    LET aws == origOpts["aws"]
        extra == DOMAIN aws \ SpecAwsAllowList
    IN /\ (Has(aws, "sign_version") /\ aws["sign_version"] # 4) =>
            (Failed /\ calls = 0 /\ signerCalls = 0)
       /\ extra # {} =>
            /\ Failed /\ calls = 0 /\ signerCalls = 0
            /\ result.value.text = "Invalid aws options: "
            /\ Range(result.value.list) = extra

\* doRequest called the transport and the server answered with a status.
DoRequestAnswered ==
  api = "doRequest" /\ pc = "done" /\ calls >= 1 /\ Len(statuses) = 1

SimpleIsFalse == Has(origOpts, "simple") /\ origOpts["simple"] = "false"

SimpleIsTrueOrAbsent == ~Has(origOpts, "simple") \/ origOpts["simple"] = "true"

\* doRequest rejected with an error that carries status s, on the error and
\* on its nested response.
RejectedWithStatus(s) ==
  /\ outcome = "rejected"
  /\ result.kind = "error"
  /\ Has(result.value, "statusCode") /\ result.value["statusCode"] = s
  /\ Has(result.value, "response")
  /\ Has(result.value["response"], "statusCode")
  /\ result.value["response"]["statusCode"] = s

\* C8, as stated: in doRequest with simple false the call resolves with
\* statusCode = s and body = the transport payload for every status s; with
\* simple true or absent and s not 2xx it rejects with an error whose
\* statusCode and response.statusCode equal s; one transport call is made.
C8_AsStated ==
  DoRequestAnswered =>
    LET s == statuses[1]
    IN /\ calls = 1
       /\ SimpleIsFalse =>
            /\ outcome = "resolved"
            /\ result.kind = "response"
            /\ result.value["statusCode"] = s
            /\ result.value["body"] = Payload(axiosOptions, 1)
       /\ (SimpleIsTrueOrAbsent /\ ~(s >= 200 /\ s < 300)) => RejectedWithStatus(s)

\* C8, amended: with simple false the call resolves for every status s, with
\* the full response (statusCode = s, body = the payload) when
\* resolveWithFullResponse is true and with the payload alone when it is
\* false or absent; with simple true or absent and s not 2xx it rejects with
\* an error whose statusCode and response.statusCode equal s; exactly one
\* transport call is made.
C8_SimpleMode ==
  DoRequestAnswered =>
    LET s == statuses[1]
    IN /\ calls = 1
       /\ SimpleIsFalse =>
            /\ outcome = "resolved"
            /\ IF Has(origOpts, "resolveWithFullResponse")
                    /\ origOpts["resolveWithFullResponse"] = "true"
               THEN /\ result.kind = "response"
                    /\ result.value["statusCode"] = s
                    /\ result.value["body"] = Payload(axiosOptions, 1)
               ELSE /\ result.kind = "body"
                    /\ result.value = Payload(axiosOptions, 1)
       /\ (SimpleIsTrueOrAbsent /\ ~(s >= 200 /\ s < 300)) => RejectedWithStatus(s)

\* C8's case: simple false, and the server answered 409.
C8_Witness ==
  /\ DoRequestAnswered /\ SimpleIsFalse /\ statuses = << 409 >>
  /\ outcome = "resolved" /\ result.kind = "response"
  /\ result.value["statusCode"] = 409

\* The value of property k, undefined when the object has no such property.
Get(o, k) == IF Has(o, k) THEN o[k] ELSE JsUndefined

RedactedInternals(e) ==
  \A k \in {"config", "request", "headers"} : Has(e, k) /\ e[k] = REDACTED

\* C9: every transport error that reaches the caller of doRequest,
\* doRequestRetry or getStream has config, request and headers equal to the
\* redaction sentinel, on the error and on its nested response, and its
\* `error` equal to its `content`.
C9_ErrorsRedacted ==
  (outcome \in {"rejected", "thrown"} /\ thrown # << >>) =>
    /\ result.kind = "error"
    /\ RedactedInternals(result.value)
    /\ Has(result.value, "response") => RedactedInternals(result.value["response"])
    /\ Has(result.value, "error")
    /\ Get(result.value, "error") = Get(result.value, "content")

\* A response of the transport has been converted.
ResponseConverted ==
  \/ api \in {"doRequest", "doRequestRetry"} /\ outcome = "resolved"
  \/ api = "getStream" /\ Len(events) > 0

\* C10: after normalisation every own property of the response object whose
\* name is not url, method, statusCode, statusMessage or body holds the
\* redaction sentinel; the object has no status, statusText or data; and the
\* full response returned is that object.
C10_ResponseRedacted ==
  ResponseConverted =>
    /\ \A k \in DOMAIN axiosResponse \ SpecResponseAllowList :
         axiosResponse[k] = REDACTED
    /\ DOMAIN axiosResponse \cap {"status", "statusText", "data"} = {}
    /\ {"headers", "config", "request"} \subseteq DOMAIN axiosResponse
    /\ (result.kind = "response") => (result.value = axiosResponse)

\* C10's case: a full response was returned, its internals redacted.
C10_Witness ==
  /\ api = "doRequest" /\ outcome = "resolved" /\ result.kind = "response"
  /\ result.value["headers"] = REDACTED /\ result.value["statusCode"] = 200

\* C9 holds of doRequest, whose catch block converts the error.
C9_DoRequestOnly == (api = "doRequest") => C9_ErrorsRedacted

\* ------------------------------------------------------------ return shape

FullResponseRequested ==
  Has(origOpts, "resolveWithFullResponse")
    /\ origOpts["resolveWithFullResponse"] = "true"

\* The payload of the n-th answer as the transport decoded it.
DecodedPayload(n) == Payload(axiosOptions, n)

\* C11: a doRequest that resolved returns, when resolveWithFullResponse was
\* requested, the full response whose statusCode is the transport's status
\* and whose body is the transport's decoded payload, and otherwise exactly
\* that payload, for every status and payload.
C11_ReturnShape ==
  (api = "doRequest" /\ outcome = "resolved") =>
    IF FullResponseRequested
    THEN /\ result.kind = "response"
         /\ result.value["statusCode"] = statuses[1]
         /\ result.value["body"] = DecodedPayload(1)
    ELSE /\ result.kind = "body"
         /\ result.value = DecodedPayload(1)

C11_Witness ==
  /\ api = "doRequest" /\ outcome = "resolved"
  /\ ~FullResponseRequested
  /\ statuses = << 404 >>
  /\ result = [kind |-> "body", value |-> [type |-> "Buffer", bytes |-> 1]]


\* ----------------------------------------------------------- stream events

EventTypes(t) == {i \in 1 .. Len(events) : events[i].type = t}

\* The transport call of getStream resolved with a response.
TransportResolved == Len(statuses) = 1 /\ thrown = << >>

\* response first and once, the chunks in order after it, end or error last
EventOrder ==
  \A i \in 1 .. Len(events) :
    /\ (events[i].type = "response") = (i = 1)
    /\ events[i].type = "data" => events[i].n = i - 1
    /\ events[i].type \in {"end", "error"} => i = Len(events)

\* C12: on the stream of getStream the events come in the order response,
\* data*, then end or error: once the transport has resolved exactly one
\* response event has been emitted, before every data event, and the body is
\* piped into the returned stream (RESPONDED, then STREAMING, then DONE or
\* ERRORED), each chunk being one data event in order, and nothing follows
\* the end or the error.
C12_StreamOrder ==
  api = "getStream" =>
    /\ EventOrder
    /\ TransportResolved =>
         /\ Cardinality(EventTypes("response")) = 1
         /\ pc \in {"streaming", "done"}


\* The transport call of getStream failed before producing a response, and
\* the rejection has been processed.
TransportFailed == api = "getStream" /\ thrown # << >> /\ pc # "await"

\* C13: when the transport call of getStream fails before producing a
\* response (a network failure, or a refused status in simple mode), the
\* failure is delivered as an error event on the returned stream: the stream
\* does not stay with neither a response nor an error event.
C13_FailureDelivered ==
  TransportFailed => EventTypes("error") # {}


\* -------------------------------------------------------------------- abort

LastEvent(q) == q[Len(q)].type

\* C14: getStream returns the stream while its transport call is still in
\* flight; abort() signals that call to stop (a call still pending is
\* cancelled); and once abort() has been called no step, in any interleaving
\* with the transport's resolution and the chunks of the body, emits a
\* response or a data event.
C14_AbortStops ==
  [][ /\ (api = "none" /\ outcome' = "returned") =>
           (pc' = "await" /\ statuses' = << >> /\ thrown' = << >>)
      /\ (aborted /\ pc = "await" /\ pc' # "await") =>
           thrown' = << AxiosCanceledError >>
      /\ (aborted /\ events' # events) =>
           LastEvent(events') \notin {"response", "data"} ]_vars

C14_Witness ==
  /\ api = "getStream" /\ aborted /\ pc = "done"
  /\ Len(events) = 3
  /\ events[1].type = "response" /\ events[2].type = "data"
  /\ events[3].type = "error"


\* ------------------------------------------------- the translated options

TranslationOnlyKeys ==
  {"simple", "resolveWithFullResponse", "encoding", "agent", "ca", "cert",
   "key", "aws", "status"}

\* The i-th translation was made and returned a configuration.
Accepted(i) == Len(translations) >= i /\ translations[i].ok

\* C15: for every accepted option bag the configuration returned by the
\* translation holds none of the translation-only keys simple,
\* resolveWithFullResponse, encoding, agent, ca, cert, key, aws, status.
C15_TranslationOnlyKeysStripped ==
  \A i \in 1 .. Len(translations) :
    translations[i].ok =>
      DOMAIN translations[i].cfg \cap TranslationOnlyKeys = {}

\* C16: translating the object the caller holds twice in a row, the caller
\* changing nothing in between, gives two equivalent configurations (the
\* same keys with the same values, the attached agent included).
C16_Idempotent ==
  Len(translations) = 2 =>
    /\ translations[1].ok = translations[2].ok
    /\ translations[1].cfg = translations[2].cfg


\* ------------------------------------------------- one call at a time

\* The transport calls that have settled: one per status received, and one
\* for a failure that carries no response.
Settled ==
  Len(statuses) +
    (IF thrown # << >> /\ ~Has(thrown[1], "response") THEN 1 ELSE 0)

InFlight == calls - Settled

\* The wait the caller asked for between two attempts.
SpecRetryDelay ==
  IF Has(origOpts, "retryDelay") THEN origOpts["retryDelay"] ELSE 5000

OneCallAtATime ==
  /\ InFlight \in {0, 1}
  /\ api = "doRequestRetry" /\ calls >= 1 =>
       /\ Len(waits) = (IF pc = "delay" THEN calls ELSE calls - 1)
       /\ \A i \in 1 .. Len(waits) :
            /\ waits[i] >= SpecRetryDelay
            /\ ~Has(origOpts, "retryDelay") => waits[i] = 5000

\* A further attempt starts in this step.
NextAttemptStarts == calls >= 1 /\ calls' = calls + 1

SpecMethod ==
  IF ~Has(origOpts, "method") THEN "GET"
  ELSE CASE origOpts["method"] \in {"get", "GET"} -> "GET"
         [] origOpts["method"] \in {"post", "POST"} -> "POST"
         [] origOpts["method"] \in {"put", "PUT"} -> "PUT"
         [] origOpts["method"] \in {"patch", "PATCH"} -> "PATCH"
         [] OTHER -> "DELETE"

JsonIsPayload ==
  Has(origOpts, "json") /\ origOpts["json"] \notin {"true", "false"}

\* The option that drives the payload, or "none".
SpecPayloadSource ==
  IF SpecMethod \notin {"POST", "PUT", "PATCH"} THEN "none"
  ELSE IF Has(origOpts, "body") THEN "body"
  ELSE IF Has(origOpts, "form") THEN "form"
  ELSE IF JsonIsPayload THEN "json"
  ELSE "none"

\* C18: the translated configuration has a payload (`data`) only when the
\* method is POST, PUT or PATCH in any case; the payload is then `body` if
\* body is set, else `form` if form is set, else `json` if json is set and is
\* not a plain boolean flag, and there is no payload otherwise.
C18_PayloadSelection ==
  Accepted(1) =>
    LET cfg == translations[1].cfg
    IN IF SpecPayloadSource = "none" THEN ~Has(cfg, "data")
       ELSE Has(cfg, "data") /\ cfg["data"] = origOpts[SpecPayloadSource]


\* -------------------------------------------------- agent materialisation

\* The scheme of the URL the request goes to: that of url or uri when it is
\* absolute, that of baseUrl when url or uri is a relative path.
SpecTarget ==
  IF Has(origOpts, "uri") THEN origOpts["uri"] ELSE origOpts["url"]

SpecSchemeIsHttps ==
  IF SpecTarget = "/path" THEN origOpts["baseUrl"] = "https://host"
  ELSE SpecTarget = "https://host/path"

TlsOptionsGiven == {k \in {"ca", "cert", "key"} : Has(origOpts, k)}

AgentKeys(cfg) == DOMAIN cfg \cap {"httpAgent", "httpsAgent"}

\* C19: a pre-built agent is attached as it is (the same object) as
\* httpsAgent when the scheme of the request's URL is https and as httpAgent
\* otherwise, also when the scheme comes from baseUrl and uri or url is a
\* relative path; with no agent but any of ca, cert, key, a new TLS agent
\* built from them is attached as httpsAgent; httpAgent and httpsAgent are
\* never both set.
C19_AgentMaterialized ==
  Accepted(1) =>
    LET cfg == translations[1].cfg
    IN IF Has(origOpts, "agent")
       THEN /\ AgentKeys(cfg) =
                 (IF SpecSchemeIsHttps THEN {"httpsAgent"} ELSE {"httpAgent"})
            /\ \A k \in AgentKeys(cfg) : cfg[k] = origOpts["agent"]
       ELSE IF TlsOptionsGiven # {}
       THEN /\ AgentKeys(cfg) = {"httpsAgent"}
            /\ cfg["httpsAgent"] # "agent1"
            /\ cfg["httpsAgent"] = newHttpsAgent(origOpts)
       ELSE AgentKeys(cfg) = {}

\* ------------------------------------------------------------------ headers

LowercaseNames ==
  {"content-type", "accept", "x-token", "authorization", "x-amz-date",
   "x-amz-security-token"}

ContentTypeNames == {"Content-Type", "content-type", "CONTENT-TYPE"}

InferredContentTypes ==
  {"application/json", "text/plain", "application/x-www-form-urlencoded"}

\* The content-type values the caller gave under any spelling of the name.
CallerContentTypes ==
  IF ~Has(origOpts, "headers") THEN {}
  ELSE {origOpts["headers"][n] :
          n \in {x \in DOMAIN origOpts["headers"] \cap ContentTypeNames :
                   origOpts["headers"][x] \notin {"undefined", "null"}}}

\* C20: in the translated configuration every header name is lowercase and
\* no header is undefined or null, also after the content-type inference
\* and after the AWS signing, which adds authorization and x-amz-date; and a
\* content-type the caller gave in mixed case is kept, not replaced by an
\* inferred one.
C20_HeadersNormalized ==
  Accepted(1) =>
    LET cfg == translations[1].cfg
        h == IF Has(cfg, "headers") THEN cfg["headers"] ELSE EmptyObj
    IN /\ DOMAIN h \subseteq LowercaseNames
       /\ \A n \in DOMAIN h : h[n] \notin {"undefined", "null"}
       /\ translations[1].signs = 1 =>
            {"authorization", "x-amz-date"} \subseteq DOMAIN h
       /\ CallerContentTypes # {} =>
            (Has(h, "content-type") /\ h["content-type"] \in CallerContentTypes)
       /\ (CallerContentTypes = {} /\ Has(h, "content-type")) =>
            h["content-type"] \in InferredContentTypes

C20_Witness ==
  /\ Accepted(1)
  /\ Has(origOpts, "method") /\ origOpts["method"] = "post"
  /\ Has(origOpts, "body") /\ Has(origOpts, "headers")
  /\ DOMAIN origOpts["headers"] = {"Content-Type", "X-Token"}
  /\ origOpts["headers"]["Content-Type"] = "application/xml"
  /\ origOpts["headers"]["X-Token"] = "null"
  /\ translations[1].signs = 1
  /\ DOMAIN translations[1].cfg["headers"] =
       {"content-type", "authorization", "x-amz-date"}

====
